---------------------------- MODULE Spec2Model ----------------------------
(***************************************************************************)
(* A model of nuklear_gamepad.h: the double-buffered per-tick button state *)
(* of a fixed array of gamepad slots, the edge queries computed from it,   *)
(* and the backend hooks that feed it.                                     *)
(*                                                                         *)
(* nk_gamepad_init and nk_gamepad_update call a backend hook                *)
(* (NK_GAMEPAD_INIT, NK_GAMEPAD_UPDATE).  A hook is a sequence of calls of *)
(* nk_gamepad_button and of writes of a slot's `available` field, so each  *)
(* of the two functions is modelled as the code before the hook            *)
(* (nk_gamepad_init_begin, nk_gamepad_update_begin), the hook's calls      *)
(* taken one at a time while pc is "init_hook" or "poll", and the code     *)
(* after the hook (nk_gamepad_init_return, nk_gamepad_update_return).      *)
(***************************************************************************)
EXTENDS Integers, Sequences, FiniteSets, TLC

\* ------------------------------------------------------------------------
\* Program constants.
\* ------------------------------------------------------------------------
NK_GAMEPAD_MAX == 4

NK_GAMEPAD_NAME_PREFIX == "Controller "

NK_GAMEPAD_BUTTON_FIRST == 0

NK_GAMEPAD_BUTTON_A == 4

NK_GAMEPAD_BUTTON_START == 11

NK_GAMEPAD_BUTTON_LAST == 12

\* The null pointer.
NULL == "NULL"

\* ------------------------------------------------------------------------
\* Bounds of the model.
\* ------------------------------------------------------------------------
\* How many slot numbers past the end of the array are passed to the API.
NumsPast == 1

Slots == 0 .. (NK_GAMEPAD_MAX - 1)

\* The slots the backend drives (polls, plugs and unplugs); the other
\* slots keep the state nk_gamepad_init and nk_gamepad_free give them.
PolledSlots == {0, 1}

\* Slot numbers past the end of the array.
PastNums == NK_GAMEPAD_MAX .. (NK_GAMEPAD_MAX + NumsPast - 1)

\* Slot numbers passed to nk_gamepad_button: the polled slots, the negative
\* "any" index and the numbers past the array.
NumArgs == PolledSlots \cup {-1} \cup PastNums

\* Slot numbers passed to the queries.
QueryNums == {-1} \cup Slots \cup PastNums

\* The members of enum nk_gamepad_button in [FIRST, LAST).
Buttons == NK_GAMEPAD_BUTTON_FIRST .. (NK_GAMEPAD_BUTTON_LAST - 1)

\* Button ordinals passed to nk_gamepad_button: two members of the
\* enumeration and NK_GAMEPAD_BUTTON_LAST, which is past its range.
ButtonArgs == {NK_GAMEPAD_BUTTON_A, NK_GAMEPAD_BUTTON_START, NK_GAMEPAD_BUTTON_LAST}

\* The button ordinals passed where the history of a pair is recorded.
ObsButtonArgs == {NK_GAMEPAD_BUTTON_A, NK_GAMEPAD_BUTTON_LAST}

\* Values passed as ctx and user_data to nk_gamepad_init.
CtxArgs == {"ctx"}

UserDataArgs == {"user_data"}

\* ------------------------------------------------------------------------
\* Bit masks (unsigned int) and the single-bit operations the code uses.
\* The buttons passed are at most NK_GAMEPAD_BUTTON_LAST, so no shift
\* reaches the width of an int.
\* ------------------------------------------------------------------------
NK_GAMEPAD_BUTTON_FLAG(button) == 2 ^ button

\* mask & flag, for a flag with one bit set.
BitAnd(mask, flag) == IF (mask \div flag) % 2 = 1 THEN flag ELSE 0

\* mask | flag, for a flag with one bit set.
BitOr(mask, flag) == mask + flag - BitAnd(mask, flag)

\* mask & ~flag, for a flag with one bit set.
BitAndNot(mask, flag) == mask - BitAnd(mask, flag)

\* ------------------------------------------------------------------------
\* The state.
\* ------------------------------------------------------------------------
VARIABLES
    gamepads,    \* struct nk_gamepads.gamepads: Slots -> struct nk_gamepad
    ctx,         \* struct nk_gamepads.ctx
    user_data,   \* struct nk_gamepads.user_data
    pc,          \* "idle", or the hook that is running: "init_hook", "poll"
    \* History of one (slot, button) pair, recorded beside the program:
    watch,       \* the pair: [num |-> slot, button |-> button ordinal]
    calls,       \* the nk_gamepad_button calls on the pair in this tick
    endPrev,     \* the pair's bit in `buttons` at the end of the last tick
    slotHist,    \* the availability of the pair's slot during this tick
    armed,       \* the last tick started with the bit clear and ended
                 \* with the button reported held, and the slot has been
                 \* available from the start of the last tick until now
    fresh,       \* nk_gamepad_init has returned true and neither
                 \* nk_gamepad_update nor nk_gamepad_button was called since
    freed        \* nk_gamepad_free has returned and nothing was called
                 \* or written since

\* nk_itoa for a positive number.
RECURSIVE nk_itoa(_)
nk_itoa(n) ==
    LET digit == SubSeq("0123456789", (n % 10) + 1, (n % 10) + 1)
    IN  IF n < 10 THEN digit ELSE nk_itoa(n \div 10) \o digit

\* struct nk_gamepad after nk_zero.
ZeroGamepad ==
    [available |-> FALSE, buttons |-> 0, buttons_prev |-> 0, name |-> "", data |-> NULL]

\* struct nk_gamepads.gamepads after nk_zero.
ZeroGamepads == [i \in Slots |-> ZeroGamepad]

\* ------------------------------------------------------------------------
\* The code of the mutating functions, as functions of the slot array.
\* ------------------------------------------------------------------------
\* InitDefaults without the nk_zero of line 271: the masks and the data
\* pointers of the previous use survive.
InitDefaultsNoZero ==
    [i \in Slots |->
        [gamepads[i] EXCEPT !.available = TRUE,
                            !.name = NK_GAMEPAD_NAME_PREFIX \o nk_itoa(i + 1)]]

\* nk_gamepad_init, lines 271-289: every slot zeroed, then marked available
\* and given its default name.
InitDefaults ==
    [i \in Slots |->
        [ZeroGamepad EXCEPT !.available = TRUE,
                            !.name = NK_GAMEPAD_NAME_PREFIX \o nk_itoa(i + 1)]]

\* InitSync without the loop of lines 298-300.
InitSyncSkipped(g) == g

\* nk_gamepad_init, lines 298-300: buttons_prev = buttons for every slot.
InitSync(g) ==
    [i \in Slots |-> [g[i] EXCEPT !.buttons_prev = g[i].buttons]]

\* ButtonSet with `^=` for `|=`: a second press toggles the bit off.
ButtonSetToggle(g, num, button, down) ==
    IF num < 0 \/ num >= NK_GAMEPAD_MAX
    THEN g
    ELSE IF g[num].available = FALSE
    THEN g
    ELSE IF down
    THEN [g EXCEPT ![num].buttons =
             IF BitAnd(@, NK_GAMEPAD_BUTTON_FLAG(button)) # 0
             THEN BitAndNot(@, NK_GAMEPAD_BUTTON_FLAG(button))
             ELSE BitOr(@, NK_GAMEPAD_BUTTON_FLAG(button))]
    ELSE [g EXCEPT ![num].buttons = BitAndNot(@, NK_GAMEPAD_BUTTON_FLAG(button))]

\* ButtonSet with `&= flag` for `&= ~flag`: a release keeps the bit.
ButtonSetKeep(g, num, button, down) ==
    IF num < 0 \/ num >= NK_GAMEPAD_MAX
    THEN g
    ELSE IF g[num].available = FALSE
    THEN g
    ELSE IF down
    THEN [g EXCEPT ![num].buttons = BitOr(@, NK_GAMEPAD_BUTTON_FLAG(button))]
    ELSE [g EXCEPT ![num].buttons = BitAnd(@, NK_GAMEPAD_BUTTON_FLAG(button))]

\* ButtonSet without the availability test of lines 324-326.
ButtonSetAnySlot(g, num, button, down) ==
    IF num < 0 \/ num >= NK_GAMEPAD_MAX
    THEN g
    ELSE IF down
    THEN [g EXCEPT ![num].buttons = BitOr(@, NK_GAMEPAD_BUTTON_FLAG(button))]
    ELSE [g EXCEPT ![num].buttons = BitAndNot(@, NK_GAMEPAD_BUTTON_FLAG(button))]

\* nk_gamepad_button: the slot array after the call.
ButtonSet(g, num, button, down) ==
    IF num < 0 \/ num >= NK_GAMEPAD_MAX
    THEN g
    ELSE IF g[num].available = FALSE
    THEN g
    ELSE IF down
    THEN [g EXCEPT ![num].buttons = BitOr(@, NK_GAMEPAD_BUTTON_FLAG(button))]
    ELSE [g EXCEPT ![num].buttons = BitAndNot(@, NK_GAMEPAD_BUTTON_FLAG(button))]

\* UpdateRotate without `buttons = 0`.
UpdateRotateNoClear(g) ==
    [i \in Slots |->
        IF g[i].available = FALSE
        THEN g[i]
        ELSE [g[i] EXCEPT !.buttons_prev = g[i].buttons]]

\* UpdateRotate without `buttons_prev = buttons`.
UpdateRotateNoCopy(g) ==
    [i \in Slots |->
        IF g[i].available = FALSE
        THEN g[i]
        ELSE [g[i] EXCEPT !.buttons = 0]]

\* UpdateRotate without the availability test of lines 338-340.
UpdateRotateAll(g) ==
    [i \in Slots |-> [g[i] EXCEPT !.buttons_prev = g[i].buttons, !.buttons = 0]]

\* UpdateRotate with the two assignments of lines 341-342 in the other
\* order: buttons_prev receives the mask that was just cleared.
UpdateRotateClearFirst(g) ==
    [i \in Slots |->
        IF g[i].available = FALSE
        THEN g[i]
        ELSE [g[i] EXCEPT !.buttons = 0, !.buttons_prev = 0]]

\* nk_gamepad_update, lines 337-343: the loop that rotates the masks.
UpdateRotate(g) ==
    [i \in Slots |->
        IF g[i].available = FALSE
        THEN g[i]
        ELSE [g[i] EXCEPT !.buttons_prev = g[i].buttons, !.buttons = 0]]

\* ------------------------------------------------------------------------
\* The queries, as functions of the slot array.
\* ------------------------------------------------------------------------
\* The three bit tests on one slot.
DownTest(gp, button) ==
    BitAnd(gp.buttons, NK_GAMEPAD_BUTTON_FLAG(button)) # 0

PressedTest(gp, button) ==
    /\ BitAnd(gp.buttons_prev, NK_GAMEPAD_BUTTON_FLAG(button)) = 0
    /\ BitAnd(gp.buttons, NK_GAMEPAD_BUTTON_FLAG(button)) # 0

\* ReleasedTest with the body of PressedTest left as it was copied.
ReleasedTestCopied(gp, button) ==
    /\ BitAnd(gp.buttons_prev, NK_GAMEPAD_BUTTON_FLAG(button)) = 0
    /\ BitAnd(gp.buttons, NK_GAMEPAD_BUTTON_FLAG(button)) # 0

ReleasedTest(gp, button) ==
    /\ BitAnd(gp.buttons, NK_GAMEPAD_BUTTON_FLAG(button)) = 0
    /\ BitAnd(gp.buttons_prev, NK_GAMEPAD_BUTTON_FLAG(button)) # 0

\* The loop of the num < 0 branch of nk_gamepad_is_button_down, from slot i.
RECURSIVE DownLoop(_, _, _)
DownLoop(g, i, button) ==
    IF i >= NK_GAMEPAD_MAX THEN FALSE
    ELSE IF g[i].available = FALSE THEN DownLoop(g, i + 1, button)
    ELSE IF DownTest(g[i], button) THEN TRUE
    ELSE DownLoop(g, i + 1, button)

nk_gamepad_is_button_down(g, num, button) ==
    IF num < 0 THEN DownLoop(g, 0, button)
    ELSE IF num >= NK_GAMEPAD_MAX THEN FALSE
    ELSE IF g[num].available = FALSE THEN FALSE
    ELSE DownTest(g[num], button)

\* The bitwise or of a field of the available slots from slot i on, for
\* the one bit of button.
RECURSIVE AnyBit(_, _, _, _)
AnyBit(g, i, field, button) ==
    IF i >= NK_GAMEPAD_MAX THEN FALSE
    ELSE IF g[i].available /\ BitAnd(g[i][field], NK_GAMEPAD_BUTTON_FLAG(button)) # 0
    THEN TRUE
    ELSE AnyBit(g, i + 1, field, button)

\* PressedLoop with the edge taken on the or of the slots' masks.
PressedLoopMerged(g, i, button) ==
    /\ ~AnyBit(g, i, "buttons_prev", button)
    /\ AnyBit(g, i, "buttons", button)

\* The loop of the num < 0 branch of nk_gamepad_is_button_pressed.
RECURSIVE PressedLoop(_, _, _)
PressedLoop(g, i, button) ==
    IF i >= NK_GAMEPAD_MAX THEN FALSE
    ELSE IF g[i].available = FALSE THEN PressedLoop(g, i + 1, button)
    ELSE IF PressedTest(g[i], button) THEN TRUE
    ELSE PressedLoop(g, i + 1, button)

nk_gamepad_is_button_pressed(g, num, button) ==
    IF num < 0 THEN PressedLoop(g, 0, button)
    ELSE IF num >= NK_GAMEPAD_MAX THEN FALSE
    ELSE IF g[num].available = FALSE THEN FALSE
    ELSE PressedTest(g[num], button)

\* ReleasedLoop without the test of `available`.
RECURSIVE ReleasedLoopAll(_, _, _)
ReleasedLoopAll(g, i, button) ==
    IF i >= NK_GAMEPAD_MAX THEN FALSE
    ELSE IF ReleasedTest(g[i], button) THEN TRUE
    ELSE ReleasedLoopAll(g, i + 1, button)

\* The loop of the num < 0 branch of nk_gamepad_is_button_released.
RECURSIVE ReleasedLoop(_, _, _)
ReleasedLoop(g, i, button) ==
    IF i >= NK_GAMEPAD_MAX THEN FALSE
    ELSE IF g[i].available = FALSE THEN ReleasedLoop(g, i + 1, button)
    ELSE IF ReleasedTest(g[i], button) THEN TRUE
    ELSE ReleasedLoop(g, i + 1, button)

nk_gamepad_is_button_released(g, num, button) ==
    IF num < 0 THEN ReleasedLoop(g, 0, button)
    ELSE IF num >= NK_GAMEPAD_MAX THEN FALSE
    ELSE IF g[num].available = FALSE THEN FALSE
    ELSE ReleasedTest(g[num], button)

\* The loop of nk_gamepad_is_available for num < 0.
RECURSIVE AvailableLoop(_, _)
AvailableLoop(g, i) ==
    IF i >= NK_GAMEPAD_MAX THEN FALSE
    ELSE IF g[i].available THEN TRUE
    ELSE AvailableLoop(g, i + 1)

nk_gamepad_is_available(g, num) ==
    IF num < 0 THEN AvailableLoop(g, 0)
    ELSE IF num >= NK_GAMEPAD_MAX THEN FALSE
    ELSE g[num].available

\* nk_gamepad_count counting the slots that are available now.
nk_gamepad_count_available ==
    Cardinality({i \in Slots : gamepads[i].available = TRUE})

\* nk_gamepad_count of a non-null tracker.
nk_gamepad_count == NK_GAMEPAD_MAX

\* NULL when the slot has no name to give.
nk_gamepad_name(g, num) ==
    IF num < 0 \/ num >= NK_GAMEPAD_MAX THEN NULL
    ELSE IF g[num].available = FALSE THEN NULL
    ELSE g[num].name

nk_gamepad_user_data == user_data

\* What nk_gamepad_any_button_pressed returns and writes: out_num and
\* out_button are written only when a button is found.
NotFound == [found |-> FALSE]

Found(num, button) == [found |-> TRUE, out_num |-> num, out_button |-> button]

\* ButtonLoop that remembers the last pressed button instead of returning
\* at the first.
RECURSIVE ButtonLoopLast(_, _, _)
ButtonLoopLast(g, num, i) ==
    IF i >= NK_GAMEPAD_BUTTON_LAST THEN NK_GAMEPAD_BUTTON_LAST
    ELSE LET later == ButtonLoopLast(g, num, i + 1)
         IN  IF later < NK_GAMEPAD_BUTTON_LAST THEN later
             ELSE IF nk_gamepad_is_button_pressed(g, num, i) THEN i
             ELSE NK_GAMEPAD_BUTTON_LAST

\* The button loop of nk_gamepad_any_button_pressed on slot num, from
\* button i: the first pressed button, or NK_GAMEPAD_BUTTON_LAST.
RECURSIVE ButtonLoop(_, _, _)
ButtonLoop(g, num, i) ==
    IF i >= NK_GAMEPAD_BUTTON_LAST THEN NK_GAMEPAD_BUTTON_LAST
    ELSE IF nk_gamepad_is_button_pressed(g, num, i) THEN i
    ELSE ButtonLoop(g, num, i + 1)

\* SlotLoop that gives up after the first slot it looks at.
SlotLoopFirstOnly(g, num) ==
    IF num >= NK_GAMEPAD_MAX THEN NotFound
    ELSE LET i == ButtonLoop(g, num, NK_GAMEPAD_BUTTON_FIRST)
         IN  IF i < NK_GAMEPAD_BUTTON_LAST THEN Found(num, i)
             ELSE NotFound

\* The slot loop of the num < 0 branch, from slot num.
RECURSIVE SlotLoop(_, _)
SlotLoop(g, num) ==
    IF num >= NK_GAMEPAD_MAX THEN NotFound
    ELSE LET i == ButtonLoop(g, num, NK_GAMEPAD_BUTTON_FIRST)
         IN  IF i < NK_GAMEPAD_BUTTON_LAST THEN Found(num, i)
             ELSE SlotLoop(g, num + 1)

nk_gamepad_any_button_pressed(g, num) ==
    IF num >= NK_GAMEPAD_MAX THEN NotFound
    ELSE IF num < 0 THEN SlotLoop(g, 0)
    ELSE IF g[num].available = FALSE THEN NotFound
    ELSE LET button == ButtonLoop(g, num, NK_GAMEPAD_BUTTON_FIRST)
         IN  IF button < NK_GAMEPAD_BUTTON_LAST THEN Found(num, button)
             ELSE NotFound

\* ------------------------------------------------------------------------
\* The operations.
\* ------------------------------------------------------------------------
\* nk_gamepad_init up to the call of NK_GAMEPAD_INIT.
nk_gamepad_init_begin(c, u) ==
    /\ pc = "idle"
    /\ gamepads' = InitDefaults
    /\ ctx' = c
    /\ user_data' = u
    /\ pc' = "init_hook"

\* nk_gamepad_init from the return of NK_GAMEPAD_INIT: a hook that reports
\* failure makes it return nk_false at once.
nk_gamepad_init_return(ok) ==
    /\ pc = "init_hook"
    /\ gamepads' = IF ok THEN InitSync(gamepads) ELSE gamepads
    /\ pc' = "idle"
    /\ UNCHANGED <<ctx, user_data>>

\* nk_gamepad_free with nk_zero given the size of one slot: only the first
\* slot is zeroed, and ctx and user_data stay.
nk_gamepad_free_first_slot ==
    /\ pc = "idle"
    /\ gamepads' = [gamepads EXCEPT ![0] = ZeroGamepad]
    /\ pc' = "idle"
    /\ UNCHANGED <<ctx, user_data>>

\* nk_gamepad_free: NK_GAMEPAD_FREE, then nk_zero.
nk_gamepad_free ==
    /\ pc = "idle"
    /\ gamepads' = ZeroGamepads
    /\ ctx' = NULL
    /\ user_data' = NULL
    /\ pc' = "idle"

\* nk_gamepad_button, called by a backend hook or by the application.
nk_gamepad_button(num, button, down) ==
    /\ gamepads' = ButtonSet(gamepads, num, button, down)
    /\ UNCHANGED <<ctx, user_data, pc>>

\* The backend writes a slot's `available` field (a device is plugged in
\* or unplugged), inside a hook or between the calls of the API.
BackendSetAvailable(i, v) ==
    /\ gamepads' = [gamepads EXCEPT ![i].available = v]
    /\ UNCHANGED <<ctx, user_data, pc>>

\* nk_gamepad_update up to the call of NK_GAMEPAD_UPDATE.
nk_gamepad_update_begin ==
    /\ pc = "idle"
    /\ gamepads' = UpdateRotate(gamepads)
    /\ pc' = "poll"
    /\ UNCHANGED <<ctx, user_data>>

\* NK_GAMEPAD_UPDATE returns, and nk_gamepad_update with it.
nk_gamepad_update_return ==
    /\ pc = "poll"
    /\ pc' = "idle"
    /\ UNCHANGED <<gamepads, ctx, user_data>>

\* ------------------------------------------------------------------------
\* The history of the watched pair.  A tick starts when nk_gamepad_update
\* (or nk_gamepad_init) starts and ends when the next one starts.
\*   calls = "none"   no nk_gamepad_button call on the pair in this tick
\*           "false"  the last call on the pair passed down = false
\*           "true"   the last call passed down = true
\*           "held"   as "true", and since the last call with down = false
\*                    one call with down = true was made inside the poll
\*                    hook while the slot was available
\*   slotHist = "always"   the slot was available when this tick started
\*                         and has been ever since
\*              "rotated"  it was available when this tick started and
\*                         has been marked unavailable since
\*              "stale"    it was unavailable when this tick started
\* ------------------------------------------------------------------------
obsvars == <<watch, calls, endPrev, slotHist, armed, fresh, freed>>

Watched == gamepads[watch.num]

LastCallDown == calls \in {"true", "held"}

ObserveInitBegin ==
    /\ calls' = "none"
    /\ endPrev' = FALSE
    /\ slotHist' = "always"
    /\ armed' = FALSE
    /\ fresh' = FALSE
    /\ freed' = FALSE
    /\ UNCHANGED watch

ObserveInitReturn(ok) ==
    /\ endPrev' = IF ok THEN DownTest(Watched, watch.button) ELSE endPrev
    /\ fresh' = ok
    /\ UNCHANGED <<watch, calls, slotHist, armed, freed>>

ObserveFree ==
    /\ calls' = "none"
    /\ endPrev' = FALSE
    /\ slotHist' = "stale"
    /\ armed' = FALSE
    /\ fresh' = FALSE
    /\ freed' = TRUE
    /\ UNCHANGED watch

ObserveButton(num, button, down) ==
    /\ calls' = IF num # watch.num \/ button # watch.button THEN calls
                ELSE IF ~down THEN "false"
                ELSE IF pc = "poll" /\ Watched.available THEN "held"
                ELSE IF calls = "held" THEN "held"
                ELSE "true"
    /\ fresh' = FALSE
    /\ freed' = FALSE
    /\ UNCHANGED <<watch, endPrev, slotHist, armed>>

ObserveSetAvailable(i, v) ==
    /\ slotHist' = IF i = watch.num /\ ~v /\ slotHist = "always"
                   THEN "rotated" ELSE slotHist
    /\ armed' = IF i = watch.num /\ ~v THEN FALSE ELSE armed
    /\ freed' = FALSE
    /\ UNCHANGED <<watch, calls, endPrev, fresh>>

ObserveUpdateBegin ==
    /\ armed' = (slotHist = "always" /\ ~endPrev /\ LastCallDown)
    /\ endPrev' = DownTest(Watched, watch.button)
    /\ slotHist' = IF Watched.available THEN "always" ELSE "stale"
    /\ calls' = "none"
    /\ fresh' = FALSE
    /\ freed' = FALSE
    /\ UNCHANGED watch

\* NK_GAMEPAD_UPDATE has returned.
ObserveUpdateReturn ==
    /\ freed' = FALSE
    /\ UNCHANGED <<watch, calls, endPrev, slotHist, armed, fresh>>

vars == <<gamepads, ctx, user_data, pc, watch, calls, endPrev, slotHist, armed, fresh, freed>>

\* The tracker's storage before the first nk_gamepad_init: zeroed.
InitProgram ==
    /\ gamepads = ZeroGamepads
    /\ ctx = NULL
    /\ user_data = NULL
    /\ pc = "idle"

\* The program alone: no history is recorded.
Init ==
    /\ InitProgram
    /\ watch = [num |-> 0, button |-> NK_GAMEPAD_BUTTON_A]
    /\ calls = "none"
    /\ endPrev = FALSE
    /\ slotHist = "stale"
    /\ armed = FALSE
    /\ fresh = FALSE
    /\ freed = FALSE

Next ==
    \/ \E c \in CtxArgs, u \in UserDataArgs :
          nk_gamepad_init_begin(c, u) /\ UNCHANGED obsvars
    \/ \E ok \in BOOLEAN : nk_gamepad_init_return(ok) /\ UNCHANGED obsvars
    \/ nk_gamepad_free /\ UNCHANGED obsvars
    \/ \E num \in NumArgs, button \in ButtonArgs, down \in BOOLEAN :
          nk_gamepad_button(num, button, down) /\ UNCHANGED obsvars
    \/ \E i \in PolledSlots, v \in BOOLEAN :
          BackendSetAvailable(i, v) /\ UNCHANGED obsvars
    \/ nk_gamepad_update_begin /\ UNCHANGED obsvars
    \/ nk_gamepad_update_return /\ UNCHANGED obsvars

Spec == Init /\ [][Next]_vars

\* The program with the history of one pair recorded, for every choice of
\* the pair.
InitObs ==
    /\ InitProgram
    /\ watch \in [num : PolledSlots, button : ObsButtonArgs]
    /\ calls = "none"
    /\ endPrev = FALSE
    /\ slotHist = "stale"
    /\ armed = FALSE
    /\ fresh = FALSE
    /\ freed = FALSE

NextObs ==
    \/ \E c \in CtxArgs, u \in UserDataArgs :
          nk_gamepad_init_begin(c, u) /\ ObserveInitBegin
    \/ \E ok \in BOOLEAN : nk_gamepad_init_return(ok) /\ ObserveInitReturn(ok)
    \/ nk_gamepad_free /\ ObserveFree
    \/ \E num \in NumArgs, button \in ObsButtonArgs, down \in BOOLEAN :
          nk_gamepad_button(num, button, down) /\ ObserveButton(num, button, down)
    \/ \E i \in PolledSlots, v \in BOOLEAN :
          BackendSetAvailable(i, v) /\ ObserveSetAvailable(i, v)
    \/ nk_gamepad_update_begin /\ ObserveUpdateBegin
    \/ nk_gamepad_update_return /\ ObserveUpdateReturn

SpecObs == InitObs /\ [][NextObs]_vars

\* ------------------------------------------------------------------------
\* The claims.
\* ------------------------------------------------------------------------
\* Button ordinals passed to the queries: the enumeration and LAST.
QueryButtons == NK_GAMEPAD_BUTTON_FIRST .. NK_GAMEPAD_BUTTON_LAST

\* nk_gamepad_init has run and nk_gamepad_free has not run since.
Live == ctx # NULL

\* The three queries on the watched pair.
WDown == nk_gamepad_is_button_down(gamepads, watch.num, watch.button)

WPressed == nk_gamepad_is_button_pressed(gamepads, watch.num, watch.button)

WReleased == nk_gamepad_is_button_released(gamepads, watch.num, watch.button)

\* The watched pair's bit in the two masks.
CurBit == BitAnd(Watched.buttons, NK_GAMEPAD_BUTTON_FLAG(watch.button)) # 0

PrevBit == BitAnd(Watched.buttons_prev, NK_GAMEPAD_BUTTON_FLAG(watch.button)) # 0

\* A tick that started with the button not held, on a slot available all
\* through it, in which the button is reported held (the last call on the
\* pair passed down = true): after nk_gamepad_update has returned, the
\* button is down and pressed and not released.
PressTick ==
    (pc = "idle" /\ slotHist = "always" /\ ~endPrev /\ LastCallDown)
        => (WDown /\ WPressed /\ ~WReleased)

\* C1: press-then-release across two ticks.  On a slot that stays
\* available, a button not held at the end of the previous tick and
\* reported held in tick t is down, pressed and not released after tick
\* t's update; when tick t+1 makes no nk_gamepad_button call on it, it is
\* not down, not pressed and released after tick t+1's update.
C1_PressThenRelease ==
    /\ PressTick
    /\ (pc = "idle" /\ armed /\ slotHist = "always" /\ calls = "none")
           => (~WDown /\ ~WPressed /\ WReleased)

C1_Witness ==
    /\ pc = "idle" /\ armed /\ slotHist = "always" /\ calls = "none"
    /\ watch.button = NK_GAMEPAD_BUTTON_A
    /\ WReleased

\* C2: edge-triggered press.  On a slot that stays available, a button not
\* held before tick 1 and reported held in two consecutive ticks is pressed
\* after tick 1's update and not after tick 2's, is released in neither
\* and is down in both.
C2_EdgeTriggeredPress ==
    /\ PressTick
    /\ (pc = "idle" /\ armed /\ slotHist = "always" /\ LastCallDown)
           => (WDown /\ ~WPressed /\ ~WReleased)

C2_Witness ==
    /\ pc = "idle" /\ armed /\ slotHist = "always" /\ calls = "held"
    /\ watch.button = NK_GAMEPAD_BUTTON_A
    /\ WDown /\ ~WPressed

\* C3 as claimed, for a tracker that nk_gamepad_init has set up: when nk_gamepad_button(slot, b, true) was called in this
\* tick's poll on the available slot and no call with false followed in
\* the tick, the button is down, and it is pressed iff its bit was clear at
\* the end of the previous tick, whatever the backend did to the slot's
\* availability.
C3_Original ==
    (Live /\ calls = "held") => (WDown /\ (WPressed <=> ~endPrev))

\* C3 amended: under the same condition the button is down whenever the
\* slot is available at the time of the query, and, when the slot was also
\* available as this tick's nk_gamepad_update ran, it is pressed iff its
\* bit was clear at the end of the previous tick.
C3_HeldWhileAvailable ==
    /\ (calls = "held" /\ Watched.available) => WDown
    /\ (calls = "held" /\ Watched.available /\ slotHist # "stale")
           => (WPressed <=> ~endPrev)

C3_Witness ==
    /\ calls = "held" /\ Watched.available /\ slotHist = "rotated"
    /\ ~endPrev /\ WPressed

\* C4: no phantom edges on tick zero.  After nk_gamepad_init has returned
\* true and before any nk_gamepad_update or nk_gamepad_button, no button
\* of any slot argument is pressed or released, whatever the init hook did.
C4_NoPhantomEdges ==
    fresh =>
        \A num \in QueryNums, button \in QueryButtons :
            /\ ~nk_gamepad_is_button_pressed(gamepads, num, button)
            /\ ~nk_gamepad_is_button_released(gamepads, num, button)

C4_Witness ==
    /\ fresh
    /\ \E i \in Slots : gamepads[i].available /\ gamepads[i].buttons # 0
    /\ \E i \in Slots : ~gamepads[i].available /\ gamepads[i].buttons # 0

\* C5 as claimed, for a tracker that nk_gamepad_init has set up: for every
\* slot available at the time of the query,
\* buttons_prev holds what buttons held at the end of the previous tick and
\* buttons holds the buttons whose last nk_gamepad_button call of this
\* tick passed down = true, also when slots are marked unavailable and
\* available again.
C5_Original ==
    (Live /\ Watched.available) =>
        /\ PrevBit <=> endPrev
        /\ CurBit <=> LastCallDown

\* C5 amended: buttons_prev holds what buttons held at the end of the
\* previous tick for every available slot that was available as this tick
\* started, and buttons holds the buttons whose last call of this tick
\* passed down = true for every slot available ever since this tick
\* started.
C5_MasksOfRotatedSlots ==
    /\ (Watched.available /\ slotHist # "stale") => (PrevBit <=> endPrev)
    /\ (slotHist = "always") => (Watched.available /\ (CurBit <=> LastCallDown))

C5_Witness ==
    /\ Watched.available /\ slotHist = "rotated"
    /\ endPrev /\ PrevBit /\ calls = "false" /\ CurBit

\* C6: the masks carry only bits of the ordinals in [FIRST, LAST), so
\* nk_gamepad_button with an ordinal outside that range changes no mask.
C6_MasksInRange ==
    \A i \in Slots :
        /\ gamepads[i].buttons < NK_GAMEPAD_BUTTON_FLAG(NK_GAMEPAD_BUTTON_LAST)
        /\ gamepads[i].buttons_prev < NK_GAMEPAD_BUTTON_FLAG(NK_GAMEPAD_BUTTON_LAST)

\* C7: on one slot no button is pressed and released at once.
C7_SlotEdgesExclusive ==
    \A num \in Slots, button \in QueryButtons :
        ~ /\ nk_gamepad_is_button_pressed(gamepads, num, button)
          /\ nk_gamepad_is_button_released(gamepads, num, button)

C7_Witness ==
    \E num \in Slots :
        /\ nk_gamepad_is_button_pressed(gamepads, num, NK_GAMEPAD_BUTTON_A)
        /\ nk_gamepad_is_button_released(gamepads, num, NK_GAMEPAD_BUTTON_START)

\* C8 as claimed: with the "any" index no button is pressed and released
\* at once.
C8_Original ==
    \A button \in QueryButtons :
        ~ /\ nk_gamepad_is_button_pressed(gamepads, -1, button)
          /\ nk_gamepad_is_button_released(gamepads, -1, button)

\* C8 amended: with the "any" index a button is pressed and released at
\* once only when one available slot has it pressed and another available
\* slot has it released.
C8_AnyEdgesFromTwoSlots ==
    \A button \in QueryButtons :
        ( /\ nk_gamepad_is_button_pressed(gamepads, -1, button)
          /\ nk_gamepad_is_button_released(gamepads, -1, button) )
        => \E i, j \in Slots :
              /\ i # j
              /\ nk_gamepad_is_button_pressed(gamepads, i, button)
              /\ nk_gamepad_is_button_released(gamepads, j, button)

C8_Witness ==
    /\ nk_gamepad_is_button_pressed(gamepads, -1, NK_GAMEPAD_BUTTON_A)
    /\ nk_gamepad_is_button_released(gamepads, -1, NK_GAMEPAD_BUTTON_A)

\* The (slot, button) pairs with the slot available and the button pressed.
PressedPairs ==
    {p \in Slots \X Buttons :
        /\ gamepads[p[1]].available
        /\ nk_gamepad_is_button_pressed(gamepads, p[1], p[2])}

\* The least pair of a set: lowest slot first, then lowest button.
LeastPair(P) ==
    CHOOSE p \in P :
        \A q \in P : p[1] < q[1] \/ (p[1] = q[1] /\ p[2] <= q[2])

\* The least number of a set.
Least(S) == CHOOSE x \in S : \A y \in S : x <= y

\* C9: nk_gamepad_any_button_pressed returns the first match, slot-major
\* and button-minor: with a negative index the least pressed pair of the
\* available slots, with an index in range the lowest pressed button of
\* that slot, and nothing with an index >= NK_GAMEPAD_MAX or without a
\* match.
C9_FirstMatch ==
    \A num \in QueryNums :
        LET r == nk_gamepad_any_button_pressed(gamepads, num)
            pressed == {button \in Buttons :
                           nk_gamepad_is_button_pressed(gamepads, num, button)}
        IN  IF num >= NK_GAMEPAD_MAX THEN r = NotFound
            ELSE IF num < 0
            THEN IF PressedPairs = {} THEN r = NotFound
                 ELSE r = Found(LeastPair(PressedPairs)[1], LeastPair(PressedPairs)[2])
            ELSE IF pressed = {} THEN r = NotFound
                 ELSE r = Found(num, Least(pressed))

C9_Witness ==
    /\ \A p \in {0, 1} \X {NK_GAMEPAD_BUTTON_A, NK_GAMEPAD_BUTTON_START} :
          p \in PressedPairs
    /\ nk_gamepad_any_button_pressed(gamepads, -1) = Found(0, NK_GAMEPAD_BUTTON_A)
    /\ nk_gamepad_any_button_pressed(gamepads, 1) = Found(1, NK_GAMEPAD_BUTTON_A)

\* C10: with the "any" index a button is down (pressed, released) iff it
\* is down (pressed, released) on some available slot taken alone.
C10_AnySlotAggregation ==
    \A button \in QueryButtons :
        /\ nk_gamepad_is_button_down(gamepads, -1, button)
              <=> \E i \in Slots :
                     /\ gamepads[i].available
                     /\ nk_gamepad_is_button_down(gamepads, i, button)
        /\ nk_gamepad_is_button_pressed(gamepads, -1, button)
              <=> \E i \in Slots :
                     /\ gamepads[i].available
                     /\ nk_gamepad_is_button_pressed(gamepads, i, button)
        /\ nk_gamepad_is_button_released(gamepads, -1, button)
              <=> \E i \in Slots :
                     /\ gamepads[i].available
                     /\ nk_gamepad_is_button_released(gamepads, i, button)

\* One slot has A pressed while another available slot held A in the last
\* tick: the or of the masks shows no edge, the first slot alone does.
C10_Witness ==
    /\ nk_gamepad_is_button_pressed(gamepads, 0, NK_GAMEPAD_BUTTON_A)
    /\ gamepads[1].available
    /\ BitAnd(gamepads[1].buttons_prev, NK_GAMEPAD_BUTTON_FLAG(NK_GAMEPAD_BUTTON_A)) # 0
    /\ nk_gamepad_is_button_pressed(gamepads, -1, NK_GAMEPAD_BUTTON_A)

\* ------------------------------------------------------------------------
\* A state of the whole tracker as nk_zero leaves it: what nk_gamepad_free
\* produces, and what zeroed storage holds before the first nk_gamepad_init.
ZeroTracker ==
    /\ \A i \in Slots :
          /\ gamepads[i].available = FALSE
          /\ gamepads[i].buttons = 0
          /\ gamepads[i].buttons_prev = 0
          /\ gamepads[i].name = ""
          /\ gamepads[i].data = NULL
    /\ ctx = NULL
    /\ user_data = NULL

\* A step of nk_gamepad_update (either half) or of nk_gamepad_button.
UpdateOrButtonStep ==
    \/ nk_gamepad_update_begin
    \/ nk_gamepad_update_return
    \/ \E num \in NumArgs, button \in ButtonArgs, down \in BOOLEAN :
          nk_gamepad_button(num, button, down)

\* Every query about the single slot i answers "no".
SlotAnswersNothing(i) ==
    /\ \A b \in QueryButtons :
          /\ ~nk_gamepad_is_button_down(gamepads, i, b)
          /\ ~nk_gamepad_is_button_pressed(gamepads, i, b)
          /\ ~nk_gamepad_is_button_released(gamepads, i, b)
    /\ ~nk_gamepad_is_available(gamepads, i)
    /\ ~nk_gamepad_any_button_pressed(gamepads, i).found
    /\ nk_gamepad_name(gamepads, i) = NULL

\* C11 (state part): every query about an unavailable slot answers "no" and
\* its name is absent.
C11_UnavailableAnswers ==
    \A i \in Slots : gamepads[i].available = FALSE => SlotAnswersNothing(i)

\* The step changes the name, data, buttons or buttons_prev of a slot that
\* is unavailable when the step begins.
UnavailableSlotWritten ==
    \E i \in Slots :
        /\ gamepads[i].available = FALSE
        /\ \/ gamepads'[i].name # gamepads[i].name
           \/ gamepads'[i].data # gamepads[i].data
           \/ gamepads'[i].buttons # gamepads[i].buttons
           \/ gamepads'[i].buttons_prev # gamepads[i].buttons_prev

\* C11 (step part): a step that changes the name, data, buttons or
\* buttons_prev of an unavailable slot is no step of nk_gamepad_update or
\* nk_gamepad_button.
C11_UnavailableFrame == UnavailableSlotWritten => ~UpdateOrButtonStep

\* C11: unavailable slots are inert: while a slot is unavailable, is_button_down,
\* is_button_pressed, is_button_released, is_available and any_button_pressed
\* asked about that slot return false and nk_gamepad_name returns NULL, and
\* no nk_gamepad_update or nk_gamepad_button step changes the slot's name,
\* data, buttons or buttons_prev.
C11_UnavailableInert ==
    []C11_UnavailableAnswers /\ [][C11_UnavailableFrame]_vars

\* C11 witness: a poll is running for a tick that began while the watched
\* slot was unavailable, and the slot still holds a bit in `buttons` that
\* nk_gamepad_update did not rotate.
C11_Witness ==
    /\ pc = "poll"
    /\ slotHist = "stale"
    /\ Watched.available = FALSE
    /\ CurBit
    /\ ~PrevBit
    /\ Watched.name # ""

\* ------------------------------------------------------------------------
\* The bit of `button` in the mask m.
MaskBit(m, button) == BitAnd(m, NK_GAMEPAD_BUTTON_FLAG(button)) # 0

\* What nk_gamepad_button(num, button, down) may write: `after` is the slot
\* array it leaves when called on the slot array g.
ButtonWriteScope(g, after, num, button, down) ==
    IF num < 0 \/ num >= NK_GAMEPAD_MAX
    THEN after = g
    ELSE IF g[num].available = FALSE
    THEN after = g
    ELSE /\ \A i \in Slots \ {num} : after[i] = g[i]
         /\ after[num].available = g[num].available
         /\ after[num].buttons_prev = g[num].buttons_prev
         /\ after[num].name = g[num].name
         /\ after[num].data = g[num].data
         /\ MaskBit(after[num].buttons, button) = down
         /\ \A b \in QueryButtons \ {button} :
               MaskBit(after[num].buttons, b) = MaskBit(g[num].buttons, b)
         /\ after[num].buttons < NK_GAMEPAD_BUTTON_FLAG(NK_GAMEPAD_BUTTON_LAST + 1)

\* C12 (slot array): in every reachable state, every nk_gamepad_button call
\* writes within its scope.
C12_ScopeOfEveryCall ==
    \A num \in NumArgs, button \in ButtonArgs, down \in BOOLEAN :
        ButtonWriteScope(gamepads, ButtonSet(gamepads, num, button, down),
                         num, button, down)

\* C12 (rest of the tracker): a step that changes ctx or user_data is no
\* step of nk_gamepad_button.
C12_ButtonKeepsHandles ==
    (ctx' # ctx \/ user_data' # user_data) =>
        ~\E num \in NumArgs, button \in ButtonArgs, down \in BOOLEAN :
            nk_gamepad_button(num, button, down)

\* C12: nk_gamepad_button with a slot index outside 0..NK_GAMEPAD_MAX-1 or
\* naming an unavailable slot leaves the whole tracker unchanged; on an
\* available slot in range it changes at most the bit of `button` in that
\* slot's `buttons` (set when down, cleared when not) and leaves buttons_prev,
\* availability and every other slot unchanged.
C12_ButtonWriteScope ==
    []C12_ScopeOfEveryCall /\ [][C12_ButtonKeepsHandles]_vars

\* C12 witness: slot 0 is available and holds a fresh press of A beside an
\* older START bit in buttons_prev, while slot 1 is unavailable and keeps
\* bits of its own.
C12_Witness ==
    /\ gamepads[0].available
    /\ MaskBit(gamepads[0].buttons, NK_GAMEPAD_BUTTON_A)
    /\ ~MaskBit(gamepads[0].buttons_prev, NK_GAMEPAD_BUTTON_A)
    /\ MaskBit(gamepads[0].buttons_prev, NK_GAMEPAD_BUTTON_START)
    /\ gamepads[1].available = FALSE
    /\ gamepads[1].buttons # 0

\* ------------------------------------------------------------------------
\* C13: nk_gamepad_button is idempotent: from every reachable state and for
\* every slot index, button and value of down, two calls with the same
\* arguments in a row leave the slot array that one call leaves (and so the
\* same answer to every query, which reads nothing else).
C13_ButtonIdempotent ==
    \A num \in NumArgs, button \in ButtonArgs, down \in BOOLEAN :
        LET once == ButtonSet(gamepads, num, button, down)
        IN  ButtonSet(once, num, button, down) = once

\* C13 witness: slot 0 is available with A held and START not held, so that
\* a press of START and a release of A both change it once, and the press of
\* A that was made changes nothing when repeated.
C13_Witness ==
    /\ gamepads[0].available
    /\ MaskBit(gamepads[0].buttons, NK_GAMEPAD_BUTTON_A)
    /\ ~MaskBit(gamepads[0].buttons, NK_GAMEPAD_BUTTON_START)
    /\ ButtonSet(gamepads, 0, NK_GAMEPAD_BUTTON_START, TRUE) # gamepads
    /\ ButtonSet(gamepads, 0, NK_GAMEPAD_BUTTON_A, FALSE) # gamepads
    /\ ButtonSet(gamepads, 0, NK_GAMEPAD_BUTTON_A, TRUE) = gamepads

\* ------------------------------------------------------------------------
\* Every slot is available and has both masks clear.
AllAvailableAndClear ==
    \A i \in Slots :
        /\ gamepads[i].available = TRUE
        /\ gamepads[i].buttons = 0
        /\ gamepads[i].buttons_prev = 0

\* C14: nk_gamepad_init resets whatever the tracker held: whatever the state
\* before (any masks, any availability flags, a freed tracker), when the
\* init hook starts every slot is available with buttons = buttons_prev = 0
\* and user_data is the value passed in, and if the hook has changed none
\* of that when it reports success, the same holds when nk_gamepad_init
\* returns.
C14_InitResets ==
    [][/\ \A c \in CtxArgs, u \in UserDataArgs :
             nk_gamepad_init_begin(c, u) =>
                 (AllAvailableAndClear' /\ user_data' = u)
       /\ (nk_gamepad_init_return(TRUE) /\ AllAvailableAndClear) =>
                 (AllAvailableAndClear' /\ user_data' = user_data)]_vars

\* C14 witness: nk_gamepad_init has just returned true with a hook that
\* wrote nothing: every slot is available with clear masks and user_data is
\* the value passed in.
C14_Witness ==
    /\ fresh
    /\ pc = "idle"
    /\ AllAvailableAndClear
    /\ user_data \in UserDataArgs

\* ------------------------------------------------------------------------
\* C15: when the init hook reports failure, nk_gamepad_init returns false and
\* leaves the tracker as nk_gamepad_free leaves it: all masks zero and no
\* slot usable, so that no query returns true.
C15_FailedInitLeavesZero ==
    [][nk_gamepad_init_return(FALSE) =>
          /\ \A i \in Slots :
                /\ gamepads'[i].available = FALSE
                /\ gamepads'[i].buttons = 0
                /\ gamepads'[i].buttons_prev = 0
          /\ ~nk_gamepad_is_available(gamepads', -1)]_vars

\* ------------------------------------------------------------------------
\* C16: nk_gamepad_free is idempotent: from every reachable state it leaves
\* the tracker in the zero state (every slot unavailable, all masks zero,
\* user_data and ctx NULL), and so does a second nk_gamepad_free, which
\* starts from that state.
C16_FreeLeavesZero ==
    [](freed => ZeroTracker) /\ [][nk_gamepad_free => (ZeroTracker' /\ pc' = "idle")]_vars

\* C16 witness: nk_gamepad_free has just returned, and nk_gamepad_free can be
\* called again.
C16_Witness ==
    /\ freed
    /\ pc = "idle"
    /\ ZeroTracker

\* ------------------------------------------------------------------------
\* C17: nk_gamepad_count of a non-null tracker is the same fixed number in
\* every reachable state: the number of slots of the array, NK_GAMEPAD_MAX,
\* also after nk_gamepad_free and whatever number of slots is available.
C17_CountConstant ==
    /\ nk_gamepad_count = NK_GAMEPAD_MAX
    /\ nk_gamepad_count = Cardinality(DOMAIN gamepads)

\* C17 witness: nk_gamepad_free has just returned and no slot is available.
C17_Witness ==
    /\ freed
    /\ ~nk_gamepad_is_available(gamepads, -1)
    /\ nk_gamepad_count = Cardinality(Slots)

\* ------------------------------------------------------------------------
\* The step changes pc from some other value to "poll": NK_GAMEPAD_UPDATE is
\* invoked.
PollBegins == pc # "poll" /\ pc' = "poll"

\* Every slot available before the step has, after it, buttons = 0 and
\* buttons_prev = the `buttons` it had before the step.
RotatedAtPollBegin ==
    \A i \in Slots : gamepads[i].available = TRUE =>
        /\ gamepads'[i].buttons = 0
        /\ gamepads'[i].buttons_prev = gamepads[i].buttons

\* C18: within one nk_gamepad_update the poll hook is invoked once, and only
\* after the rotation: the step of nk_gamepad_update that starts the hook is
\* the only way into the hook and the step that ends it the only way out,
\* and at the moment the hook starts every slot that was available when
\* nk_gamepad_update was called has buttons = 0 and buttons_prev = its
\* `buttons` from just before the call.
C18_RotateThenPoll ==
    [][/\ nk_gamepad_update_begin => PollBegins
       /\ PollBegins => (pc = "idle" /\ RotatedAtPollBegin)
       /\ (pc = "poll" /\ pc' # "poll") => (pc' = "idle" /\ gamepads' = gamepads)]_vars

\* C18 witness: the poll hook has started for a tick in which the watched
\* slot was rotated and no call has named the watched button yet: the bit
\* that ended the previous tick set is in buttons_prev and clear in buttons.
C18_Witness ==
    /\ pc = "poll"
    /\ slotHist = "always"
    /\ calls = "none"
    /\ endPrev
    /\ PrevBit
    /\ ~CurBit
    /\ Watched.available

\* ------------------------------------------------------------------------
\* C19: nk_gamepad_any_button_pressed agrees with nk_gamepad_is_button_pressed:
\* in every reachable state, asked about any slot (-1) it finds a button if
\* and only if nk_gamepad_is_button_pressed(-1, b) is true for some button b,
\* and whenever it finds (out_num, out_button), for any slot argument, that
\* slot is available and nk_gamepad_is_button_pressed(out_num, out_button)
\* is true in the same state.
C19_AnyPressedAgrees ==
    /\ nk_gamepad_any_button_pressed(gamepads, -1).found
           <=> \E b \in Buttons : nk_gamepad_is_button_pressed(gamepads, -1, b)
    /\ \A num \in QueryNums :
          LET r == nk_gamepad_any_button_pressed(gamepads, num)
          IN  r.found =>
                /\ r.out_num \in Slots
                /\ r.out_button \in Buttons
                /\ gamepads[r.out_num].available = TRUE
                /\ nk_gamepad_is_button_pressed(gamepads, r.out_num, r.out_button)

\* C19 witness: slot 0 is available with nothing pressed and slot 1 has a
\* fresh press, so the scan over all slots has to go past slot 0 to find it.
C19_Witness ==
    /\ gamepads[0].available
    /\ ~nk_gamepad_any_button_pressed(gamepads, 0).found
    /\ nk_gamepad_any_button_pressed(gamepads, -1).found
    /\ nk_gamepad_any_button_pressed(gamepads, -1).out_num = 1

\* ------------------------------------------------------------------------
\* Every query, about every slot argument and button, answers "no".
NothingAnswers ==
    \A num \in QueryNums :
        /\ \A b \in QueryButtons :
              /\ ~nk_gamepad_is_button_down(gamepads, num, b)
              /\ ~nk_gamepad_is_button_pressed(gamepads, num, b)
              /\ ~nk_gamepad_is_button_released(gamepads, num, b)
        /\ ~nk_gamepad_is_available(gamepads, num)
        /\ ~nk_gamepad_any_button_pressed(gamepads, num).found

\* C20: a freed tracker is inert: from nk_gamepad_free to the next
\* nk_gamepad_init, as long as no backend hook marks a slot available, no
\* step of nk_gamepad_update or nk_gamepad_button takes the tracker out of
\* the zero state, and in the zero state is_button_down, is_button_pressed,
\* is_button_released, is_available and any_button_pressed return false for
\* every slot argument and button.
C20_FreedInert ==
    /\ [](ZeroTracker => NothingAnswers)
    /\ [][(ZeroTracker /\ ~ZeroTracker') => ~UpdateOrButtonStep]_vars

\* C20 witness: the tracker is in the zero state while the poll hook of an
\* nk_gamepad_update runs on it.
C20_Witness ==
    /\ ZeroTracker
    /\ pc = "poll"
    /\ NothingAnswers

=============================================================================
